---- MODULE Spec2Model ----
(***************************************************************************)
(* Steam-To-Notion gaming tracker: the session tracker, the game           *)
(* validator, the Steam fetches and the sync loop against the Notion       *)
(* database, as state machines translated from src/gaming_tracker.py,      *)
(* with the SessonTracker of src/index.py beside them.                     *)
(***************************************************************************)
EXTENDS Integers, Sequences, FiniteSets, TLC

(***************************************************************************)
(* Bounds of the model.                                                    *)
(***************************************************************************)
\* app ids run over 0 .. MaxAppId
MaxAppId == 3

AppIds == 0 .. MaxAppId

\* the ids the session-tracker runs observe: the smallest and the largest
SessionIds == {0, MaxAppId}

\* playtime_forever samples (minutes) and rtime_last_played samples (unix
\* seconds); the differences 3600, 3601 and 10 all occur among the latter
Playtimes == {0, 100, 150, 200}

Times == {1000, 4600, 4601, 4611}

\* the longest genres list of a details record
MaxGenres == 2

\* the number of responses a source script holds
MaxScript == 3

\* the most pages the Notion database holds
MaxPages == 3

\* the number of consecutive games that count as one batch
BatchSize == 2

(***************************************************************************)
(* Values.                                                                 *)
(***************************************************************************)
\* gaming_sessions.json does not exist
NoFile == [exists |-> FALSE]

NoCall == [outcome |-> "none"]

\* str(app_id), the key of the sessions dict
Digit(d) == <<"0", "1", "2", "3", "4", "5", "6", "7", "8", "9">>[d + 1]

RECURSIVE Str(_)
Str(n) == IF n < 10 THEN Digit(n) ELSE Str(n \div 10) \o Digit(n % 10)

\* the empty dict {}
EmptyDict == <<>>

\* d[k] = v on a dict
Put(d, k, v) == [x \in (DOMAIN d) \cup {k} |-> IF x = k THEN v ELSE d[x]]

\* json.dump of the sessions dict: the file holds one entry per key
JsonDump(d) == [exists |-> TRUE, entries |-> {<<k, d[k]>> : k \in DOMAIN d}]

\* json.load of such a file
JsonLoad(f) ==
    [k \in {e[1] : e \in f.entries} |-> (CHOOSE e \in f.entries : e[1] = k)[2]]

VARIABLES
    sessions,       \* SessionTracker.sessions, the in-memory dict
    session_file,   \* the content of gaming_sessions.json, or NoFile
    call,           \* the last update_session_count call: arguments, state before, outcome
    returned,       \* per app id, the session count the latest call on it returned
    game_details,   \* the details dict handed to is_valid_game
    valid,          \* what is_valid_game returned for it, "unset" before the call
    source,         \* the responses the Steam endpoint gives to successive requests
    attempts,       \* requests the current fetch call has sent
    pauses,         \* backoff sleeps the current fetch call has made
    fetched,        \* the fetch call made and what it returned
    pc,             \* where sync_games_to_notion stands: idle, listing, loop, done
    update_existing,\* the parameter of the running sync
    games,          \* the games list of line 591
    i,              \* the position in games of the next game (from 1)
    existing_games, \* the dict of line 598, app id to page id
    scan,           \* the page requests get_existing_games sent, in order
    notion,         \* the pages of the Notion database, in creation order
    counters,       \* synced, updated, errors, skipped of line 600
    requests,       \* the create and update calls of the running sync, in order
    trackable,      \* the app ids that passed is_valid_game in the running sync
    result,         \* what the sync returned
    prev,           \* the sync that ran before the running one
    loop_at,        \* the request the loop body stands at: its line, the game's position, whether the answer is awaited
    loop_games,     \* the games the loop runs over
    include_achievements, \* the parameter of the running sync
    in_flight,      \* the requests sent and not yet answered
    answered,       \* the requests answered, in the order of their answers
    gathered,       \* per position, what the fetches of that game returned
    thread,         \* per calling thread, where its update_session_count call stands
    inserted        \* the keys of the sessions dict in the order of their insertion

sessionVars == <<sessions, session_file, call, returned>>

validVars == <<game_details, valid>>

fetchVars == <<source, attempts, pauses, fetched>>

syncVars == <<pc, update_existing, games, i, existing_games, scan, notion,
              counters, requests, trackable, result, prev>>

trafficVars == <<loop_at, loop_games, include_achievements, in_flight,
                 answered, gathered>>

threadVars == <<thread, inserted>>

vars == <<sessions, session_file, call, returned, game_details, valid,
          source, attempts, pauses, fetched,
          pc, update_existing, games, i, existing_games, scan, notion,
          counters, requests, trackable, result, prev,
          loop_at, loop_games, include_achievements, in_flight,
          answered, gathered, thread, inserted>>

(***************************************************************************)
(* SessionTracker (src/gaming_tracker.py).                                 *)
(***************************************************************************)
\* the idle threshold of line 180
SessionGap == 3600

\* a mutant of load_sessions: every process starts from an empty dict
load_sessions_Fresh(file) == EmptyDict

\* load_sessions: the dict the file holds, {} when there is no file
load_sessions(file) == IF ~file.exists THEN EmptyDict ELSE JsonLoad(file)

\* save_sessions: the file after the write
save_sessions(s) == JsonDump(s)

\* a mutant of NewSession: a gap of exactly one hour counts
NewSession_AtLeast(last_played, last_session_time) ==
    last_played - last_session_time >= SessionGap

\* the gap test of line 180
NewSession(last_played, last_session_time) ==
    last_played - last_session_time > SessionGap

\* a mutant of FirstCount: a first observation always counts one session
FirstCount_Always(current_playtime) == 1

\* the session count a first observation starts with (line 169)
FirstCount(current_playtime) == IF current_playtime > 0 THEN 1 ELSE 0

\* a mutant of PlaytimeIncreased: an unchanged playtime counts as an increase
PlaytimeIncreased_OrSame(current_playtime, last_playtime) ==
    current_playtime >= last_playtime

\* the test of line 177
PlaytimeIncreased(current_playtime, last_playtime) ==
    current_playtime > last_playtime

\* a mutant of IsNewApp: every call starts the entry afresh
IsNewApp_Always(s, app_id_str) == TRUE

\* the test of line 167
IsNewApp(s, app_id_str) == app_id_str \notin DOMAIN s

\* a mutant of update_session_count: every call on a stored entry counts one
\* more session
update_session_count_CountEveryCall(s, app_id, current_playtime, last_played) ==
    LET app_id_str == Str(app_id) IN
    IF IsNewApp(s, app_id_str)
    THEN Put(s, app_id_str,
             [session_count |-> FirstCount(current_playtime),
              last_playtime |-> current_playtime,
              last_played   |-> last_played])
    ELSE Put(s, app_id_str,
             [session_count |-> s[app_id_str].session_count + 1,
              last_playtime |-> current_playtime,
              last_played   |-> last_played])

\* a mutant of update_session_count: the playtime and the timestamp are
\* stored only when the gap test passes
update_session_count_RefreshOnNewSession(s, app_id, current_playtime, last_played) ==
    LET app_id_str == Str(app_id) IN
    IF IsNewApp(s, app_id_str)
    THEN Put(s, app_id_str,
             [session_count |-> FirstCount(current_playtime),
              last_playtime |-> current_playtime,
              last_played   |-> last_played])
    ELSE LET session_data == s[app_id_str] IN
         IF /\ PlaytimeIncreased(current_playtime, session_data.last_playtime)
            /\ NewSession(last_played, session_data.last_played)
         THEN Put(s, app_id_str,
                  [session_count |-> session_data.session_count + 1,
                   last_playtime |-> current_playtime,
                   last_played   |-> last_played])
         ELSE s

\* lines 164-184: the dict after the call
update_session_count(s, app_id, current_playtime, last_played) ==
    LET app_id_str == Str(app_id) IN
    IF IsNewApp(s, app_id_str)
    THEN Put(s, app_id_str,
             [session_count |-> FirstCount(current_playtime),
              last_playtime |-> current_playtime,
              last_played   |-> last_played])
    ELSE LET session_data == s[app_id_str] IN
         IF PlaytimeIncreased(current_playtime, session_data.last_playtime)
         THEN Put(s, app_id_str,
                  [session_count |->
                       IF NewSession(last_played, session_data.last_played)
                       THEN session_data.session_count + 1
                       ELSE session_data.session_count,
                   last_playtime |-> current_playtime,
                   last_played   |-> last_played])
         ELSE s

\* the record of a completed call
CallRecord(app_id, current_playtime, last_played, pre, before, value) ==
    [outcome |-> "return", app_id |-> app_id,
     current_playtime |-> current_playtime, last_played |-> last_played,
     pre |-> pre, prev |-> before, value |-> value]

\* one whole update_session_count call (lines 162-187): mutate, save, return
Observe(app_id, current_playtime, last_played) ==
    LET s == update_session_count(sessions, app_id, current_playtime, last_played)
        value == s[Str(app_id)].session_count
    IN  /\ sessions' = s
        /\ session_file' = save_sessions(s)
        /\ call' = CallRecord(app_id, current_playtime, last_played,
                              sessions, returned[app_id], value)
        /\ returned' = [returned EXCEPT ![app_id] =
                            [outcome |-> "return", value |-> value]]

\* menu option 5 (lines 844-856) and any direct caller: one observation
UpdateSessionCount ==
    /\ \E app_id \in SessionIds, current_playtime \in Playtimes, last_played \in Times :
            Observe(app_id, current_playtime, last_played)
    /\ UNCHANGED <<validVars, fetchVars, syncVars, trafficVars, threadVars>>

\* the run of calls on one app id that a call belongs to, kept from the
\* arguments and the return values of the calls alone: a call is in a run when
\* it is the first on its id or passes a playtime above every one passed
\* before; it continues the run of the call before it when that call was in
\* one and its last_played is at most 3600 above that call's, and starts a run
\* otherwise.  start is the last_played of the run's first call and count what
\* that call returned.
RunAfter(before, current_playtime, last_played, value) ==
    LET first == before.outcome # "return"
        top == IF first THEN -1 ELSE before.run.top
        continues == /\ ~first
                     /\ before.run.live
                     /\ last_played - before.run.last_played <= SessionGap
    IN  IF current_playtime > top
        THEN [live |-> TRUE, top |-> current_playtime, last_played |-> last_played,
              start |-> IF continues THEN before.run.start ELSE last_played,
              count |-> IF continues THEN before.run.count ELSE value]
        ELSE [live |-> FALSE, top |-> top, last_played |-> 0, start |-> 0,
              count |-> 0]

\* the app id whose runs of calls are followed
RunIds == {0}

\* one whole update_session_count call (lines 162-187) with the run it
\* belongs to kept beside what it returned
ObserveRun(app_id, current_playtime, last_played) ==
    LET s == update_session_count(sessions, app_id, current_playtime, last_played)
        value == s[Str(app_id)].session_count
    IN  /\ sessions' = s
        /\ session_file' = save_sessions(s)
        /\ call' = CallRecord(app_id, current_playtime, last_played,
                              sessions, returned[app_id], value)
        /\ returned' = [returned EXCEPT ![app_id] =
                            [outcome |-> "return", value |-> value,
                             run |-> RunAfter(returned[app_id], current_playtime,
                                              last_played, value)]]

\* a caller that observes one app over and over
UpdateSessionCountRun ==
    /\ \E app_id \in RunIds, current_playtime \in Playtimes, last_played \in Times :
            ObserveRun(app_id, current_playtime, last_played)
    /\ UNCHANGED <<validVars, fetchVars, syncVars, trafficVars, threadVars>>

\* the file holds a whole JSON text, or there is none
Readable(file) == ~file.exists \/ "entries" \in DOMAIN file

\* a new process: SessionTracker.__init__ loads the file (lines 145-155);
\* load_sessions catches FileNotFoundError only, so a file json.load cannot
\* parse ends the construction with JSONDecodeError
Restart ==
    /\ IF Readable(session_file)
       THEN /\ sessions' = load_sessions(session_file)
            /\ call' = NoCall
       ELSE /\ sessions' = EmptyDict
            /\ call' = [outcome |-> "start_failed", error |-> "JSONDecodeError"]
    /\ UNCHANGED <<session_file, returned>>
    /\ UNCHANGED <<validVars, fetchVars, syncVars, trafficVars, threadVars>>


(***************************************************************************)
(* SessonTracker (src/index.py).  Its update_session_count is the one of   *)
(* gaming_tracker.py line for line; its save_sessions has the body of      *)
(* load_sessions.  The misspelt names of the file (session. for self. on   *)
(* line 156, slf on line 172, sessons on line 183) are read as the names   *)
(* they stand for.                                                         *)
(***************************************************************************)
\* index.py lines 153-159: "save" opens the file for reading and replaces
\* self.sessions by what it holds, {} when there is no file
save_sessions_index(file) == IF ~file.exists THEN EmptyDict ELSE JsonLoad(file)

\* the record of a call that ended in an exception
RaiseRecord(app_id, current_playtime, last_played, pre, before, error) ==
    [outcome |-> "raise", app_id |-> app_id,
     current_playtime |-> current_playtime, last_played |-> last_played,
     pre |-> pre, prev |-> before, error |-> error]

\* index.py lines 161-183: mutate, "save", return self.sessions[app_id_str]
ObserveIndex(app_id, current_playtime, last_played) ==
    \* the dict mutated in lines 165-181 is the one line 182 replaces
    LET reloaded == save_sessions_index(session_file)
        app_id_str == Str(app_id)
    IN  /\ sessions' = reloaded
        /\ UNCHANGED session_file
        /\ IF app_id_str \in DOMAIN reloaded
           THEN /\ call' = CallRecord(app_id, current_playtime, last_played, sessions,
                                      returned[app_id], reloaded[app_id_str].session_count)
                /\ returned' = [returned EXCEPT ![app_id] =
                                    [outcome |-> "return",
                                     value |-> reloaded[app_id_str].session_count]]
           ELSE /\ call' = RaiseRecord(app_id, current_playtime, last_played, sessions,
                                       returned[app_id], "KeyError")
                /\ UNCHANGED returned

UpdateSessionCountIndex ==
    /\ \E app_id \in SessionIds, current_playtime \in Playtimes, last_played \in Times :
            ObserveIndex(app_id, current_playtime, last_played)
    /\ UNCHANGED <<validVars, fetchVars, syncVars, trafficVars, threadVars>>

\* the files gaming_tracker.py leaves under the same name, gaming_sessions.json
IndexFiles ==
    {NoFile} \cup
    {save_sessions(update_session_count(EmptyDict, a, p, t)) :
        a \in SessionIds, p \in Playtimes, t \in Times}


(***************************************************************************)
(* GamingTracker.is_valid_game (src/gaming_tracker.py lines 563-583).      *)
(* A string that is lower-cased is a sequence of characters; a dict is a   *)
(* function on the keys it holds.                                          *)
(***************************************************************************)
\* Python's None
None == "None"

\* d.get(k, default)
Get(d, k, default) == IF k \in DOMAIN d THEN d[k] ELSE default

UpperLetters == <<"A", "B", "C", "D", "E", "F", "G", "H", "I", "J", "K", "L", "M",
                  "N", "O", "P", "Q", "R", "S", "T", "U", "V", "W", "X", "Y", "Z">>

LowerLetters == <<"a", "b", "c", "d", "e", "f", "g", "h", "i", "j", "k", "l", "m",
                  "n", "o", "p", "q", "r", "s", "t", "u", "v", "w", "x", "y", "z">>

\* str.lower() on one character
LowerChar(c) ==
    IF \E n \in 1..26 : UpperLetters[n] = c
    THEN LowerLetters[CHOOSE n \in 1..26 : UpperLetters[n] = c]
    ELSE c

\* str.lower()
Lower(str) == [n \in 1..Len(str) |-> LowerChar(str[n])]

\* the literal 'game' of line 566
GameType == <<"g", "a", "m", "e">>

\* line 577
non_game_genres ==
    {"Utilities", "Software", "Video Production", "Animation & Modeling",
     "Design & Illustration"}

\* a mutant of has_game_genres: every genre must be a game genre
has_game_genres_All(genres) ==
    \A n \in 1..Len(genres) : Get(genres[n], "description", None) \notin non_game_genres

\* line 578: any(genre.get('description') not in non_game_genres for genre in genres)
has_game_genres(genres) ==
    \E n \in 1..Len(genres) : Get(genres[n], "description", None) \notin non_game_genres

\* lines 563-583
is_valid_game(details) ==
    IF Lower(Get(details, "type", <<>>)) # GameType
    THEN FALSE
    ELSE LET genres == Get(details, "genres", <<>>) IN
         IF genres = <<>>
         THEN FALSE
         ELSE IF ~has_game_genres(genres) THEN FALSE ELSE TRUE

\* the type strings and genre entries the validator runs are drawn from
TypeNames ==
    {<<>>, <<"g", "a", "m", "e">>, <<"G", "a", "m", "e">>, <<"G", "A", "M", "E">>,
     <<"d", "l", "c">>, <<"g", "a", "m", "e", "s">>}

GenreEntries ==
    {[description |-> d] : d \in non_game_genres \cup {"Action"}} \cup {[id |-> "1"]}

GenreLists == UNION {[1..n -> GenreEntries] : n \in 0..MaxGenres}

DetailInputs ==
    {EmptyDict}
    \cup {[type |-> t] : t \in TypeNames}
    \cup {[genres |-> g] : g \in GenreLists}
    \cup {[type |-> t, genres |-> g] : t \in TypeNames, g \in GenreLists}

NotValidated == [done |-> FALSE]

\* one call of is_valid_game
Validate ==
    /\ ~valid.done
    /\ valid' = [done |-> TRUE, value |-> is_valid_game(game_details)]
    /\ UNCHANGED game_details
    /\ UNCHANGED <<sessionVars, fetchVars, syncVars, trafficVars, threadVars>>

(***************************************************************************)
(* SteamAPI.get_game_details and get_game_achievements                     *)
(* (src/gaming_tracker.py lines 70-106), against a source whose responses  *)
(* to successive requests are scripted.                                    *)
(***************************************************************************)
\* what requests.get gives: an HTTP response, or a RequestException raised
\* by the transport (timeout, connection failure)
Http(status) == [kind |-> "http", status |-> status]

TransportError == [kind |-> "error"]

Responses == {Http(200), Http(403), Http(429), Http(500), TransportError}

\* response.raise_for_status() raises HTTPError on a 4xx or 5xx status
raise_for_status(resp) == resp.status >= 400 /\ resp.status < 600

\* what the store knows about an app: ids up to 2 are games, the rest DLC
StoreDetails(app_id) ==
    CASE app_id = 0 -> [type |-> <<"g", "a", "m", "e">>,
                        genres |-> <<[description |-> "Action"]>>]
      [] app_id = 1 -> [type |-> <<"g", "a", "m", "e">>,
                        genres |-> <<[description |-> "Action"],
                                     [description |-> "Utilities"]>>]
      [] app_id = 2 -> [type |-> <<"G", "a", "m", "e">>,
                        genres |-> <<[description |-> "Indie"]>>]
      [] OTHER      -> [type |-> <<"d", "l", "c">>,
                        genres |-> <<[description |-> "Action"]>>]

\* the JSON body of a successful appdetails response
DetailsBody(app_id) == (Str(app_id) :> [success |-> TRUE, data |-> StoreDetails(app_id)])

\* the JSON body of a successful GetPlayerAchievements response
AchievementsBody(app_id) ==
    [playerstats |-> [achievements |-> <<[achieved |-> 1], [achieved |-> 0]>>]]

\* lines 78-85: one request; any RequestException gives {}
get_game_details(resp, app_id) ==
    IF resp.kind = "error" THEN EmptyDict
    ELSE IF raise_for_status(resp) THEN EmptyDict
    ELSE Get(Get(DetailsBody(app_id), Str(app_id), EmptyDict), "data", EmptyDict)

\* lines 97-106: one request; 403 gives {}, any RequestException gives {}
get_game_achievements(resp, app_id) ==
    IF resp.kind = "error" THEN EmptyDict
    ELSE IF resp.status = 403 THEN EmptyDict
    ELSE IF raise_for_status(resp) THEN EmptyDict
    ELSE AchievementsBody(app_id)

NoFetch == [kind |-> "none"]

\* one whole get_game_details call: it sends one request and never sleeps
GetGameDetails ==
    /\ fetched.kind = "none"
    /\ \E app_id \in AppIds :
          fetched' = [kind |-> "details", app_id |-> app_id,
                      result |-> get_game_details(source[attempts + 1], app_id)]
    /\ attempts' = attempts + 1
    /\ UNCHANGED <<source, pauses>>
    /\ UNCHANGED <<sessionVars, validVars, syncVars, trafficVars, threadVars>>

\* one whole get_game_achievements call: it sends one request and never sleeps
GetGameAchievements ==
    /\ fetched.kind = "none"
    /\ \E app_id \in AppIds :
          fetched' = [kind |-> "achievements", app_id |-> app_id,
                      result |-> get_game_achievements(source[attempts + 1], app_id)]
    /\ attempts' = attempts + 1
    /\ UNCHANGED <<source, pauses>>
    /\ UNCHANGED <<sessionVars, validVars, syncVars, trafficVars, threadVars>>

Scripts == [1..MaxScript -> Responses]

(***************************************************************************)
(* NotionAPI.get_existing_games, create_game_entry, update_game_entry and  *)
(* GamingTracker.sync_games_to_notion (src/gaming_tracker.py).             *)
(***************************************************************************)
\* the page_size of line 353
PageSize == 100

\* the owned-games entry Steam holds for an app
LibraryGame(app_id) ==
    CASE app_id = 0 -> [appid |-> 0, playtime_forever |-> 120, rtime_last_played |-> 5000]
      [] app_id = 1 -> [appid |-> 1, playtime_forever |-> 0, rtime_last_played |-> 0]
      [] OTHER      -> [appid |-> app_id, playtime_forever |-> 200,
                        rtime_last_played |-> 1000]

\* a set of app ids as a list, in ascending order
RECURSIVE Ascending(_)
Ascending(ids) ==
    IF ids = {} THEN <<>>
    ELSE LET least == CHOOSE a \in ids : \A b \in ids : a <= b
         IN  <<LibraryGame(least)>> \o Ascending(ids \ {least})

\* the app ids of the libraries: 0, two ids the database can list, and a DLC
SyncIds == {0, 1, 2, 3}

\* the libraries GetOwnedGames answers with
Libraries == {Ascending(ids) : ids \in SUBSET SyncIds}

\* lines 45-51 and 591: the games list, [] when the request fails
get_owned_games(resp, library) ==
    IF resp.kind = "error" THEN <<>>
    ELSE IF raise_for_status(resp) THEN <<>>
    ELSE library

\* the "App ID" property of a page (line 244)
AppIdProp(page) == Get(Get(page, "properties", EmptyDict), "App ID", EmptyDict)

\* a mutant of HasNumber: the number is there, whatever its value
HasNumber_NotNone(prop) == "number" \in DOMAIN prop

\* line 364: if app_id_prop.get('number') - a number that is there and not 0
HasNumber(prop) == "number" \in DOMAIN prop /\ prop.number # 0

\* lines 362-365 over the results of one response
RECURSIVE CollectPages(_, _)
CollectPages(existing, results) ==
    IF results = <<>> THEN existing
    ELSE LET page == Head(results)
             app_id_prop == AppIdProp(page)
         IN  CollectPages(IF HasNumber(app_id_prop)
                          THEN Put(existing, app_id_prop.number, page.id)
                          ELSE existing,
                          Tail(results))

Min(a, b) == IF a < b THEN a ELSE b

\* the database's answer to a query from position cursor with pages of
\* length chunk: the results, has_more and next_cursor
QueryResponse(cursor, chunk) ==
    LET last == Min(cursor + chunk - 1, Len(notion))
    IN  [results     |-> SubSeq(notion, cursor, last),
         has_more    |-> last < Len(notion),
         next_cursor |-> last + 1]

\* lines 348-374, the while loop from a cursor on: the database answers with
\* pages of length chunk, and request number fail_at (0: none) fails
RECURSIVE ScanFrom(_, _, _, _, _)
ScanFrom(existing, log, cursor, chunk, fail_at) ==
    IF Len(log) + 1 = fail_at
    THEN [existing_games |-> existing,
          scan |-> Append(log, [start_cursor |-> cursor, outcome |-> "error"])]
    ELSE LET data == QueryResponse(cursor, chunk)
             found == CollectPages(existing, data.results)
             sent == Append(log, [start_cursor |-> cursor, outcome |-> "ok",
                                  has_more |-> data.has_more,
                                  next_cursor |-> data.next_cursor])
         IN  IF data.has_more
             THEN ScanFrom(found, sent, data.next_cursor, chunk, fail_at)
             ELSE [existing_games |-> found, scan |-> sent]

\* lines 344-374: the first request carries no cursor and reads from the start
get_existing_games(chunk, fail_at) == ScanFrom(EmptyDict, <<>>, 1, chunk, fail_at)

\* the page create_game_entry posts (lines 242-295), as far as a sync reads it
NewPage(game_data, session_count) ==
    [id |-> Len(notion) + 1,
     properties |-> ("App ID" :> [number |-> Get(game_data, "appid", 0)])
                    @@ ("Session Count" :> [number |-> session_count])]

\* the page after update_game_entry's patch (lines 324-336)
PatchedPage(page, session_count) ==
    [page EXCEPT !.properties =
        ("Session Count" :> [number |-> session_count]) @@ page.properties]

\* a mutant of Route: the dict is never consulted
Route_AlwaysCreate(app_id, existing, upd) == "create"

\* lines 630 and 641: the call an item is routed to
Route(app_id, existing, upd) ==
    IF app_id \in DOMAIN existing /\ upd THEN "update"
    ELSE IF app_id \notin DOMAIN existing THEN "create"
    ELSE "none"

\* a mutant of Tally: a failed write is not counted
Tally_DropErrors(c, op, ok) ==
    IF ok
    THEN IF op = "create" THEN [c EXCEPT !.synced = @ + 1]
         ELSE [c EXCEPT !.updated = @ + 1]
    ELSE c

\* a mutant of Tally: a failed write is counted where the call returns and
\* again in the except clause
Tally_ErrorsTwice(c, op, ok) ==
    IF ok
    THEN IF op = "create" THEN [c EXCEPT !.synced = @ + 1]
         ELSE [c EXCEPT !.updated = @ + 1]
    ELSE [c EXCEPT !.errors = @ + 2]

\* lines 637-640, 647-650 and 659-661: the counters after a write call
Tally(c, op, ok) ==
    IF ok
    THEN IF op = "create" THEN [c EXCEPT !.synced = @ + 1]
         ELSE [c EXCEPT !.updated = @ + 1]
    ELSE [c EXCEPT !.errors = @ + 1]

ZeroCounters == [synced |-> 0, updated |-> 0, errors |-> 0, skipped |-> 0]

NoResult == [kind |-> "none"]

NoRun == [kind |-> "none"]

\* the finished sync updated existing entries, skipped no game and counted
\* no error
CleanRun ==
    /\ update_existing
    /\ counters.errors = 0
    /\ trackable = {games[n].appid : n \in 1..Len(games)}

\* what a finished sync leaves for the next one to be compared with: whether
\* it was clean and, if so, its games
RunSummary ==
    IF CleanRun THEN [kind |-> "run", clean |-> TRUE, games |-> games]
    ELSE [kind |-> "run", clean |-> FALSE]

\* the outcomes of a write call: a successful status, an error status
\* (HTTPError, which carries the response), a transport failure
WriteOutcomes == {"ok", "http_error", "transport_error"}

\* a mutant of AfterLibrary: an empty library is not returned on
AfterLibrary_NoShortCut(owned, upd) == IF upd THEN "listing" ELSE "loop"

\* lines 593-598: where the call goes once the library is there
AfterLibrary(owned, upd) ==
    IF owned = <<>> THEN "done"
    ELSE IF upd THEN "listing" ELSE "loop"

\* lines 585-600: the call starts, fetches the library and returns at once
\* when it is empty
StartSync ==
    /\ pc \in {"idle", "done"}
    /\ \E upd \in BOOLEAN, library \in Libraries, resp \in {Http(200), Http(500)} :
          LET owned == get_owned_games(resp, library) IN
          /\ Len(notion) + Len(library) <= MaxPages
          /\ update_existing' = upd
          /\ games' = owned
          /\ pc' = AfterLibrary(owned, upd)
          /\ result' = IF AfterLibrary(owned, upd) = "done"
                       THEN [kind |-> "returned", synced |-> 0, updated |-> 0,
                             errors |-> 0, skipped |-> 0]
                       ELSE NoResult
    /\ prev' = IF pc = "done" THEN RunSummary ELSE NoRun
    /\ i' = 1
    /\ existing_games' = EmptyDict
    /\ scan' = <<>>
    /\ counters' = ZeroCounters
    /\ requests' = <<>>
    /\ trackable' = {}
    /\ UNCHANGED notion
    /\ UNCHANGED <<sessionVars, validVars, fetchVars, trafficVars, threadVars>>

\* line 598: the whole get_existing_games call
ListExisting ==
    /\ pc = "listing"
    /\ \E chunk \in 1..Min(PageSize, MaxPages), fail_at \in 0..MaxPages :
          LET got == get_existing_games(chunk, fail_at) IN
          /\ fail_at <= Len(got.scan)
          /\ existing_games' = got.existing_games
          /\ scan' = got.scan
    /\ pc' = "loop"
    /\ UNCHANGED <<update_existing, games, i, notion, counters, requests,
                   trackable, result, prev>>
    /\ UNCHANGED <<sessionVars, validVars, fetchVars, trafficVars, threadVars>>

\* lines 630-650: the write call an item is routed to, with its outcome
WriteEntry(game, session_count, outcome) ==
    LET app_id == game.appid
        op == Route(app_id, existing_games, update_existing)
        ok == outcome = "ok"
    IN  IF op = "none"
        THEN UNCHANGED <<notion, counters, requests>>
        ELSE /\ requests' = Append(requests,
                    [op |-> op, appid |-> app_id, ok |-> ok,
                     page_id |-> IF op = "update" THEN existing_games[app_id] ELSE 0])
             /\ counters' = Tally(counters, op, ok)
             /\ notion' =
                    IF ~ok THEN notion
                    ELSE IF op = "create" THEN Append(notion, NewPage(game, session_count))
                    ELSE [n \in 1..Len(notion) |->
                              IF notion[n].id = existing_games[app_id]
                              THEN PatchedPage(notion[n], session_count)
                              ELSE notion[n]]

\* lines 602-661, one pass of the loop body.  Lines 605-609 stand before
\* the try block, indented deeper than any block around them, and read
\* game_details, which line 613 assigns; the test is applied to the record
\* line 613 fetches for the same game.
ProcessGame ==
    /\ pc = "loop"
    /\ i <= Len(games)
    /\ \E resp \in Responses :
          LET game == games[i]
              details == get_game_details(resp, game.appid)
          IN  IF ~is_valid_game(details)
              THEN /\ counters' = [counters EXCEPT !.skipped = @ + 1]
                   /\ UNCHANGED <<notion, requests, trackable>>
                   /\ UNCHANGED sessionVars
              ELSE /\ trackable' = trackable \cup {game.appid}
                   /\ Observe(game.appid, game.playtime_forever, game.rtime_last_played)
                   /\ \E outcome \in WriteOutcomes :
                          WriteEntry(game, call'.value, outcome)
    /\ i' = i + 1
    /\ UNCHANGED <<pc, update_existing, games, existing_games, scan, result, prev>>
    /\ UNCHANGED <<validVars, fetchVars, trafficVars, threadVars>>

\* lines 663-665: the loop is over and the counters are returned
FinishSync ==
    /\ pc = "loop"
    /\ i > Len(games)
    /\ pc' = "done"
    /\ result' = [kind |-> "returned", synced |-> counters.synced,
                  updated |-> counters.updated, errors |-> counters.errors]
    /\ UNCHANGED <<update_existing, games, i, existing_games, scan, notion,
                   counters, requests, trackable, prev>>
    /\ UNCHANGED <<sessionVars, validVars, fetchVars, trafficVars, threadVars>>


(***************************************************************************)
(* The requests of the loop of sync_games_to_notion (lines 602-661), one   *)
(* at a time: the appdetails request of line 613, the achievements request *)
(* of line 626 (calculate_achievement_completion, lines 543-561) and the   *)
(* create or update request of lines 630-650.  The Notion database and the *)
(* session file are left out; the sleep of line 657 sends nothing.         *)
(***************************************************************************)
\* the percentage of lines 554-557 in tenths of a percent; round(x, 1) is
\* exact here for every list shorter than 16 (no quotient ends in 5
\* hundredths)
Percentage(completed, total) ==
    IF total > 0 THEN (2000 * completed + total) \div (2 * total) ELSE 0

\* a mutant of calculate_achievement_completion: nothing to achieve counts
\* as everything achieved
calculate_achievement_completion_Full(resp, app_id) ==
    LET achievements_data == get_game_achievements(resp, app_id)
        achievements == Get(Get(achievements_data, "playerstats", EmptyDict),
                            "achievements", <<>>)
    IN  IF achievements = <<>> THEN 1000
        ELSE Percentage(Cardinality({k \in 1..Len(achievements) :
                                        Get(achievements[k], "achieved", None) = 1}),
                        Len(achievements))

\* lines 543-561: 0 for no data, no list or an empty list
calculate_achievement_completion(resp, app_id) ==
    LET achievements_data == get_game_achievements(resp, app_id)
        achievements == Get(Get(achievements_data, "playerstats", EmptyDict),
                            "achievements", <<>>)
    IN  IF achievements = <<>> THEN 0
        ELSE Percentage(Cardinality({k \in 1..Len(achievements) :
                                        Get(achievements[k], "achieved", None) = 1}),
                        Len(achievements))

\* a mutant of requests_call: the request is sent and not waited for
requests_call_Async(line, n) == [line |-> line, n |-> n, waiting |-> FALSE]

\* a mutant of requests_call: the write is sent and the loop goes on to the
\* next game
requests_call_WriteAsync(line, n) ==
    IF line = "write" THEN [line |-> "details", n |-> n + 1, waiting |-> FALSE]
    ELSE [line |-> line, n |-> n, waiting |-> TRUE]

\* requests.get, requests.post and requests.patch (lines 79, 98, 297, 337)
\* return when the response is there: the loop waits at the line of the call
requests_call(line, n) == [line |-> line, n |-> n, waiting |-> TRUE]

LoopIdle == [line |-> "idle", n |-> 0, waiting |-> FALSE]

\* line 602: the next game, or the end of the loop
NextGame(n) ==
    IF n < Len(loop_games) THEN [line |-> "details", n |-> n + 1, waiting |-> FALSE]
    ELSE [line |-> "done", n |-> n, waiting |-> FALSE]

RequestLines == {"details", "achievements", "write"}

\* the requests sent so far
RequestsSent == Len(answered) + Cardinality(in_flight)

\* lines 585-602: the loop starts on a non-empty library
BeginLoop ==
    /\ loop_at.line = "idle"
    /\ \E library \in Libraries \ {<<>>}, ach \in BOOLEAN :
          /\ loop_games' = library
          /\ include_achievements' = ach
    /\ loop_at' = [line |-> "details", n |-> 1, waiting |-> FALSE]
    /\ in_flight' = {}
    /\ answered' = <<>>
    /\ gathered' = EmptyDict
    /\ UNCHANGED <<sessionVars, validVars, fetchVars, syncVars, threadVars>>

\* the request of the line the loop stands at goes out
SendRequest ==
    /\ loop_at.line \in RequestLines
    /\ ~loop_at.waiting
    /\ loop_at.n <= Len(loop_games)
    /\ in_flight' = in_flight \cup
            {[line |-> loop_at.line, n |-> loop_at.n, seq |-> RequestsSent + 1]}
    /\ loop_at' = requests_call(loop_at.line, loop_at.n)
    /\ UNCHANGED <<loop_games, include_achievements, answered, gathered>>
    /\ UNCHANGED <<sessionVars, validVars, fetchVars, syncVars, threadVars>>

\* the request the loop waits for
Awaited == {r \in in_flight : r.line = loop_at.line /\ r.n = loop_at.n}

\* the answer to the request r arrives
Answered(r, resp) ==
    /\ in_flight' = in_flight \ {r}
    /\ answered' = Append(answered, [line |-> r.line, n |-> r.n, seq |-> r.seq,
                                     resp |-> resp])

\* lines 613 and 605-609: the details arrive; a game that is not valid is
\* skipped, a valid one goes on to lines 616-626
AnswerDetails ==
    /\ loop_at.line = "details" /\ loop_at.waiting
    /\ \E r \in Awaited, resp \in Responses :
          LET details == get_game_details(resp, loop_games[r.n].appid) IN
          /\ Answered(r, resp)
          /\ gathered' = Put(gathered, r.n, [details |-> details, completion |-> 0])
          /\ loop_at' = IF ~is_valid_game(details) THEN NextGame(r.n)
                        ELSE IF include_achievements
                             THEN [line |-> "achievements", n |-> r.n, waiting |-> FALSE]
                             ELSE [line |-> "write", n |-> r.n, waiting |-> FALSE]
    /\ UNCHANGED <<loop_games, include_achievements>>
    /\ UNCHANGED <<sessionVars, validVars, fetchVars, syncVars, threadVars>>

\* lines 624-626: the achievements arrive, or the request fails
AnswerAchievements ==
    /\ loop_at.line = "achievements" /\ loop_at.waiting
    /\ \E r \in Awaited, resp \in Responses :
          /\ Answered(r, resp)
          /\ gathered' = Put(gathered, r.n,
                 [gathered[r.n] EXCEPT !.completion =
                      calculate_achievement_completion(resp, loop_games[r.n].appid)])
          /\ loop_at' = [line |-> "write", n |-> r.n, waiting |-> FALSE]
    /\ UNCHANGED <<loop_games, include_achievements>>
    /\ UNCHANGED <<sessionVars, validVars, fetchVars, syncVars, threadVars>>

\* lines 630-657: the create or update call returns, or fails
AnswerWrite ==
    /\ loop_at.line = "write" /\ loop_at.waiting
    /\ \E r \in Awaited, outcome \in WriteOutcomes :
          /\ Answered(r, outcome)
          /\ loop_at' = NextGame(r.n)
    /\ UNCHANGED <<loop_games, include_achievements, gathered>>
    /\ UNCHANGED <<sessionVars, validVars, fetchVars, syncVars, threadVars>>

(***************************************************************************)
(* main, menu option 5 "Update session counts" (lines 844-856).            *)
(***************************************************************************)
\* lines 849-854: the sessions dict after the calls for all games, in order
RECURSIVE SessionsAfter(_, _)
SessionsAfter(s, gs) ==
    IF gs = <<>> THEN s
    ELSE SessionsAfter(update_session_count(s, Head(gs).appid,
                                            Head(gs).playtime_forever,
                                            Head(gs).rtime_last_played),
                       Tail(gs))

\* the files the syncs leave: no file, or the entry of a valid game
SyncFiles ==
    {NoFile} \cup
    {save_sessions(update_session_count(EmptyDict, a, p, t)) :
        a \in {x \in SyncIds : is_valid_game(StoreDetails(x))},
        p \in Playtimes, t \in Times}

\* lines 844-856, the whole handler: the library is fetched and
\* update_session_count is called for every game of it; no game's details
\* are fetched and is_valid_game is not called
UpdateSessionCounts ==
    /\ pc \in {"idle", "done"}
    /\ \E library \in Libraries, resp \in {Http(200), Http(500)} :
          LET owned == get_owned_games(resp, library)
              s == SessionsAfter(sessions, owned)
          IN  IF owned = <<>>
              THEN UNCHANGED sessionVars
              ELSE LET last == owned[Len(owned)]
                       before == SessionsAfter(sessions, SubSeq(owned, 1, Len(owned) - 1))
                   IN  /\ sessions' = s
                       /\ session_file' = save_sessions(s)
                       /\ call' = CallRecord(last.appid, last.playtime_forever,
                                             last.rtime_last_played, before,
                                             returned[last.appid],
                                             s[Str(last.appid)].session_count)
                       /\ returned' =
                             [a \in DOMAIN returned |->
                                 IF \E n \in 1..Len(owned) : owned[n].appid = a
                                 THEN [outcome |-> "return",
                                       value |-> s[Str(a)].session_count]
                                 ELSE returned[a]]
    /\ UNCHANGED <<validVars, fetchVars, syncVars, trafficVars, threadVars>>

(***************************************************************************)
(* One record of the database under create_game_entry (lines 207-306),     *)
(* update_game_entry (lines 308-342) and the owner's edits in Notion, with *)
(* every property the two calls write.  Numbers with decimals are kept in  *)
(* their last digit: hours in tenths, money in cents.                      *)
(***************************************************************************)
\* the nearest integer to a / b (a >= 0, b > 0, no quotient here ends in .5)
Rounded(a, b) == (2 * a + b) \div (2 * b)

\* lines 213-214 and 314-315: round(playtime_minutes / 60, 1), in tenths
HoursPlayed(game_data) ==
    LET playtime_minutes == Get(game_data, "playtime_forever", 0)
    IN  IF playtime_minutes > 0 THEN Rounded(playtime_minutes, 6) ELSE 0

\* lines 217 and 318: price_overview.final / 100, in cents
Price(game_data) ==
    IF "price_overview" \in DOMAIN game_data
    THEN Get(game_data.price_overview, "final", 0)
    ELSE 0

\* lines 218 and 319: round(price / hours_played, 2), in cents
CostPerHour(game_data) ==
    IF HoursPlayed(game_data) > 0 /\ Price(game_data) > 0
    THEN Rounded(Price(game_data) * 10, HoursPlayed(game_data))
    ELSE 0

\* lines 221-223 and 321-323: the date property of rtime_last_played; the
\* ISO string of a timestamp is kept as the timestamp it is the string of
LastPlayedDate(game_data) ==
    IF Get(game_data, "rtime_last_played", 0) # 0
    THEN [date |-> [start |-> [isoformat |-> game_data.rtime_last_played]]]
    ELSE [date |-> None]

\* ', '.join(names): the names in order, with the separator between them
Joined(names) == [separator |-> ", ", parts |-> names]

\* lines 243-290: the properties create_game_entry posts
create_properties(game_data, session_count, achievement_completion) ==
    [p \in {"Game Name", "App ID", "Hours Played", "Session Count", "Last Played",
            "Most Recent Session", "Genres", "Price", "Cost Per Hour",
            "Release Date", "Purchase Date", "Developer", "Publisher",
            "Achievement Completion", "Gameplay Rating",
            "Story/Worldbuilding Rating", "Graphics/Art Style Rating",
            "Music/Sound Design Rating", "Replayability Rating",
            "Emotional Impact Rating", "Notes", "Status", "Platform",
            "Description"} |->
        CASE p = "Game Name" -> [title |-> Get(game_data, "name", "Unknown")]
          [] p = "App ID" -> [number |-> Get(game_data, "appid", 0)]
          [] p = "Hours Played" -> [number |-> HoursPlayed(game_data)]
          [] p = "Session Count" -> [number |-> session_count]
          [] p = "Last Played" -> LastPlayedDate(game_data)
          [] p = "Most Recent Session" -> LastPlayedDate(game_data)
          [] p = "Genres" ->
                LET genres == Get(game_data, "genres", <<>>)
                    first == SubSeq(genres, 1, Min(5, Len(genres)))
                IN  [multi_select |->
                        [n \in 1..Len(first) |-> Get(first[n], "description", "")]]
          [] p = "Price" -> [number |-> Price(game_data)]
          [] p = "Cost Per Hour" -> [number |-> CostPerHour(game_data)]
          [] p = "Release Date" -> [date |-> None]
          [] p = "Purchase Date" -> [date |-> None]
          [] p = "Developer" -> [rich_text |-> Joined(Get(game_data, "developers", <<>>))]
          [] p = "Publisher" -> [rich_text |-> Joined(Get(game_data, "publishers", <<>>))]
          [] p = "Achievement Completion" -> [number |-> achievement_completion]
          [] p = "Notes" -> [rich_text |-> <<>>]
          [] p = "Status" -> [select |-> "Owned"]
          [] p = "Platform" -> [multi_select |-> <<"Steam">>]
          [] p = "Description" -> [rich_text |-> Get(game_data, "short_description", "")]
          [] OTHER -> [number |-> 0]]

\* a mutant of update_properties: the status is written too
update_properties_WithStatus(game_data, session_count, achievement_completion) ==
    [p \in {"Hours Played", "Session Count", "Last Played", "Most Recent Session",
            "Cost Per Hour", "Achievement Completion", "Status"} |->
        CASE p = "Hours Played" -> [number |-> HoursPlayed(game_data)]
          [] p = "Session Count" -> [number |-> session_count]
          [] p = "Cost Per Hour" -> [number |-> CostPerHour(game_data)]
          [] p = "Achievement Completion" -> [number |-> achievement_completion]
          [] p = "Status" -> [select |-> "Owned"]
          [] OTHER -> LastPlayedDate(game_data)]

\* lines 325-332: the properties update_game_entry patches
update_properties(game_data, session_count, achievement_completion) ==
    [p \in {"Hours Played", "Session Count", "Last Played", "Most Recent Session",
            "Cost Per Hour", "Achievement Completion"} |->
        CASE p = "Hours Played" -> [number |-> HoursPlayed(game_data)]
          [] p = "Session Count" -> [number |-> session_count]
          [] p = "Cost Per Hour" -> [number |-> CostPerHour(game_data)]
          [] p = "Achievement Completion" -> [number |-> achievement_completion]
          [] OTHER -> LastPlayedDate(game_data)]

\* the merged game data of line 628 the page runs are drawn from: one game,
\* played or not, priced or free
PageGames ==
    LET base(playtime, last_played) ==
            [appid |-> 2, name |-> "Portal", playtime_forever |-> playtime,
             rtime_last_played |-> last_played,
             type |-> <<"g", "a", "m", "e">>,
             genres |-> <<[description |-> "Action"]>>,
             developers |-> <<"Valve">>]
    IN  {base(0, 0), base(120, 5000), base(200, 9000)}
        \cup {[price_overview |-> [final |-> 1000]] @@ base(120, 5000),
              [price_overview |-> [final |-> 1000]] @@ base(200, 9000)}

SessionCounts == 0..2

Completions == {0, 500}

\* lines 297-306: the page is posted; on success the database holds it
CreateEntry ==
    /\ notion = <<>>
    /\ \E game_data \in PageGames, session_count \in SessionCounts,
          achievement_completion \in Completions, outcome \in WriteOutcomes :
          LET properties == create_properties(game_data, session_count,
                                              achievement_completion)
          IN  /\ requests' = <<[op |-> "create", appid |-> game_data.appid,
                                ok |-> outcome = "ok", page_id |-> 0,
                                written |-> DOMAIN properties]>>
              /\ notion' = IF outcome = "ok"
                           THEN <<[id |-> 1, properties |-> properties]>>
                           ELSE notion
    /\ UNCHANGED <<pc, update_existing, games, i, existing_games, scan, counters,
                   trackable, result, prev>>
    /\ UNCHANGED <<sessionVars, validVars, fetchVars, trafficVars, threadVars>>

\* lines 334-342: the patch is sent; on success the properties it names
\* replace the page's, the others stay
UpdateEntry ==
    /\ notion # <<>>
    /\ \E game_data \in PageGames, session_count \in SessionCounts,
          achievement_completion \in Completions, outcome \in WriteOutcomes :
          LET properties == update_properties(game_data, session_count,
                                              achievement_completion)
          IN  /\ requests' = <<[op |-> "update", appid |-> game_data.appid,
                                ok |-> outcome = "ok", page_id |-> notion[1].id,
                                written |-> DOMAIN properties]>>
              /\ notion' = IF outcome = "ok"
                           THEN <<[notion[1] EXCEPT !.properties =
                                       properties @@ notion[1].properties]>>
                           ELSE notion
    /\ UNCHANGED <<pc, update_existing, games, i, existing_games, scan, counters,
                   trackable, result, prev>>
    /\ UNCHANGED <<sessionVars, validVars, fetchVars, trafficVars, threadVars>>

\* the owner rates the game and sets its status in Notion ("To be filled
\* manually", lines 256 and 271-277)
OwnerEdits ==
    /\ notion # <<>>
    /\ \E rating \in {0, 8}, status \in {"Owned", "Completed"} :
          notion' = <<[notion[1] EXCEPT !.properties =
                          ("Gameplay Rating" :> [number |-> rating])
                          @@ ("Status" :> [select |-> status])
                          @@ notion[1].properties]>>
    /\ requests' = <<[op |-> "edit"]>>
    /\ UNCHANGED <<pc, update_existing, games, i, existing_games, scan, counters,
                   trackable, result, prev>>
    /\ UNCHANGED <<sessionVars, validVars, fetchVars, trafficVars, threadVars>>

(***************************************************************************)
(* The process dies inside update_session_count (lines 162-187).           *)
(* save_sessions (lines 157-160) opens the file with mode 'w', which       *)
(* empties it, and json.dump then writes the text piece by piece.          *)
(***************************************************************************)
\* the file after open(..., 'w') and before the last piece of the text is
\* written: empty, or the beginning of a JSON text
TornFile == [exists |-> TRUE, torn |-> TRUE]

\* where the process can die: before line 186, inside save_sessions once
\* the file is open, after save_sessions has closed the file
CrashPoints == {"before_save", "in_save", "after_save"}

\* the file a crash at a point leaves, the call having made the dict s
FileAfterCrash(point, file, s) ==
    CASE point = "before_save" -> file
      [] point = "in_save"     -> TornFile
      [] OTHER                 -> save_sessions(s)

\* a process is there: the last start did not fail and no crash ended it
Running == call.outcome \notin {"crash", "start_failed"}

\* update_session_count starts and the process dies at one of the points
CrashInObserve ==
    /\ Running
    /\ \E app_id \in SessionIds, current_playtime \in Playtimes, last_played \in Times,
          point \in CrashPoints :
          LET s == update_session_count(sessions, app_id, current_playtime, last_played)
          IN  /\ session_file' = FileAfterCrash(point, session_file, s)
              /\ call' = [outcome |-> "crash", app_id |-> app_id, point |-> point,
                          pre_file |-> session_file]
    /\ sessions' = EmptyDict
    /\ UNCHANGED returned
    /\ UNCHANGED <<validVars, fetchVars, syncVars, trafficVars, threadVars>>

(***************************************************************************)
(* Sync after sync over a library of one game, each with the tracker and   *)
(* the page payloads of lines 207-342.                                     *)
(***************************************************************************)
\* lines 585-665, the whole call with update_existing=True for a library of
\* one game whose details pass is_valid_game: the database is listed, the
\* game is observed, and the page is created or updated with the session
\* count update_session_count returned.  The request is kept with the game
\* data it was built from and the properties it carried.
SyncOneGame ==
    /\ \E game_data \in PageGames, achievement_completion \in Completions,
          outcome \in WriteOutcomes :
          LET got == get_existing_games(Min(PageSize, MaxPages), 0)
              op == Route(game_data.appid, got.existing_games, TRUE)
              ok == outcome = "ok"
          IN  /\ Observe(game_data.appid, game_data.playtime_forever,
                         game_data.rtime_last_played)
              /\ LET session_count == call'.value
                     properties ==
                         IF op = "create"
                         THEN create_properties(game_data, session_count,
                                                achievement_completion)
                         ELSE update_properties(game_data, session_count,
                                                achievement_completion)
                 IN  /\ requests' =
                           <<[op |-> op, appid |-> game_data.appid, ok |-> ok,
                              page_id |-> IF op = "update"
                                          THEN got.existing_games[game_data.appid]
                                          ELSE 0,
                              game_data |-> game_data,
                              properties |-> properties]>>
                     /\ notion' =
                           IF ~ok THEN notion
                           ELSE IF op = "create"
                                THEN Append(notion, [id |-> Len(notion) + 1,
                                                     properties |-> properties])
                                ELSE [n \in 1..Len(notion) |->
                                         IF notion[n].id = got.existing_games[game_data.appid]
                                         THEN [notion[n] EXCEPT !.properties =
                                                   properties @@ notion[n].properties]
                                         ELSE notion[n]]
              /\ games' = <<game_data>>
              /\ existing_games' = got.existing_games
              /\ scan' = got.scan
              /\ counters' = Tally(ZeroCounters, op, ok)
              /\ result' = [kind |-> "returned", synced |-> counters'.synced,
                            updated |-> counters'.updated,
                            errors |-> counters'.errors]
              /\ trackable' = {game_data.appid}
    /\ prev' = IF requests = <<>> THEN NoRun
               ELSE [kind |-> "run", request |-> requests[1]]
    /\ pc' = "done"
    /\ i' = 2
    /\ update_existing' = TRUE
    /\ UNCHANGED <<validVars, fetchVars, trafficVars, threadVars>>

(***************************************************************************)
(* update_session_count called by several threads on one SessionTracker,   *)
(* one thread per app id and one call per thread.  The source has no lock  *)
(* and no thread of its own; the call is taken apart at the points where   *)
(* the interpreter can switch threads and another thread can see or change *)
(* what the call works on: the stores into the dict (lines 168, 181, 183,  *)
(* 184), open (line 159), the reads json.dump makes of the dict (line 160) *)
(* and the close that ends the with block and writes the buffered text.    *)
(* Tests and reads of the thread's own entry are joined to the step they   *)
(* lead to, since no other thread writes that entry.                       *)
(***************************************************************************)
\* the threads, named by the app id each observes
ThreadIds == SessionIds

\* playtimes of three digits: with the four digits of every timestamp and the
\* one digit of every count, every entry takes the same number of characters
\* of the file
ThreadPlaytimes == {100, 200}

\* timestamps at and more than one hour after the stored one
ThreadTimes == {1000, 4601}

\* the text json.dump(..., indent=2) writes for a dict that is not empty, cut
\* into cells: after the opening brace an entry ('"0": {...}', 84 characters),
\* then ',' and the indent of the next entry (4 characters) or the closing
\* brace on its own line (2 characters), and so on.  CloseOver is a closing
\* brace written over the first 2 characters of a longer text's comma cell:
\* the rest of that text follows it.
Body(key, entry) == [kind |-> "body", key |-> key, entry |-> entry]

Comma == [kind |-> "comma"]

Close == [kind |-> "close"]

CloseOver == [kind |-> "close_over"]

\* the text of the dict d, whose keys were inserted in the given order
RECURSIVE JsonDumpCells(_, _)
JsonDumpCells(d, order) ==
    IF Len(order) = 0
    THEN <<>>
    ELSE <<Body(order[1], d[order[1]]),
           IF Len(order) = 1 THEN Close ELSE Comma>>
         \o JsonDumpCells(d, Tail(order))

\* json.load accepts the text: entries with commas between and one closing
\* brace at the end; an empty file, a text cut off and a text with characters
\* after the closing brace raise JSONDecodeError
WellFormed(cells) ==
    /\ Len(cells) >= 2
    /\ Len(cells) % 2 = 0
    /\ \A j \in 1 .. Len(cells) :
          cells[j].kind = (IF j % 2 = 1 THEN "body"
                           ELSE IF j = Len(cells) THEN "close" ELSE "comma")

\* json.load of a text it accepts: of two entries under one key the later is
\* kept
RECURSIVE JsonLoadCells(_, _)
JsonLoadCells(d, cells) ==
    IF Len(cells) = 0
    THEN d
    ELSE JsonLoadCells(IF cells[1].kind = "body"
                       THEN Put(d, cells[1].key, cells[1].entry)
                       ELSE d,
                       Tail(cells))

\* the file after a handle opened with 'w' has written its buffer: the
\* handle's position is 0 whatever was written through other handles since
\* it was opened, so the buffer replaces the first characters of the file
\* and what the file holds beyond the buffer's length stays
Written(buf, cells) ==
    LET lb == Len(buf)
        lf == Len(cells)
    IN  [j \in 1 .. (IF lb > lf THEN lb ELSE lf) |->
            IF j < lb THEN buf[j]
            ELSE IF j = lb
                 THEN (IF buf[j].kind = "close" /\ lf > lb THEN CloseOver ELSE buf[j])
                 ELSE cells[j]]

\* a thread that has not called
NotCalling ==
    [pc |-> "idle", current_playtime |-> 0, last_played |-> 0, expect |-> <<>>,
     size |-> 0, pos |-> 0, cur |-> <<>>, buf |-> <<>>]

\* lines 164-181: the thread calls; a new key is stored with its whole entry
\* (line 168), a higher playtime with a gap above one hour adds 1 to
\* session_count (line 181).  expect is the entry the call is to leave.
EnterCall ==
    /\ \E a \in ThreadIds, current_playtime \in ThreadPlaytimes,
          last_played \in ThreadTimes :
          LET app_id_str == Str(a)
              expect == update_session_count(sessions, a, current_playtime,
                                             last_played)[app_id_str]
              t == [thread[a] EXCEPT !.current_playtime = current_playtime,
                                     !.last_played = last_played,
                                     !.expect = expect]
          IN  /\ thread[a].pc = "idle"
              /\ IF IsNewApp(sessions, app_id_str)
                 THEN /\ sessions' = Put(sessions, app_id_str,
                                         [session_count |-> FirstCount(current_playtime),
                                          last_playtime |-> current_playtime,
                                          last_played   |-> last_played])
                      /\ inserted' = Append(inserted, app_id_str)
                      /\ thread' = [thread EXCEPT ![a] = [t EXCEPT !.pc = "open"]]
                 ELSE LET session_data == sessions[app_id_str] IN
                      IF PlaytimeIncreased(current_playtime, session_data.last_playtime)
                      THEN /\ sessions' =
                                 IF NewSession(last_played, session_data.last_played)
                                 THEN [sessions EXCEPT ![app_id_str].session_count = @ + 1]
                                 ELSE sessions
                           /\ thread' = [thread EXCEPT ![a] = [t EXCEPT !.pc = "line183"]]
                           /\ UNCHANGED inserted
                      ELSE /\ thread' = [thread EXCEPT ![a] = [t EXCEPT !.pc = "open"]]
                           /\ UNCHANGED <<sessions, inserted>>
    /\ UNCHANGED <<session_file, call, returned>>
    /\ UNCHANGED <<validVars, fetchVars, syncVars, trafficVars>>

\* line 183: session_data['last_playtime'] = current_playtime
StorePlaytime ==
    /\ \E a \in ThreadIds :
          /\ thread[a].pc = "line183"
          /\ sessions' = [sessions EXCEPT
                              ![Str(a)].last_playtime = thread[a].current_playtime]
          /\ thread' = [thread EXCEPT ![a].pc = "line184"]
    /\ UNCHANGED <<session_file, call, returned, inserted>>
    /\ UNCHANGED <<validVars, fetchVars, syncVars, trafficVars>>

\* line 184: session_data['last_played'] = last_played
StoreLastPlayed ==
    /\ \E a \in ThreadIds :
          /\ thread[a].pc = "line184"
          /\ sessions' = [sessions EXCEPT
                              ![Str(a)].last_played = thread[a].last_played]
          /\ thread' = [thread EXCEPT ![a].pc = "open"]
    /\ UNCHANGED <<session_file, call, returned, inserted>>
    /\ UNCHANGED <<validVars, fetchVars, syncVars, trafficVars>>

\* line 159: open(self.session_file, 'w') empties the file
OpenFile ==
    /\ \E a \in ThreadIds :
          /\ thread[a].pc = "open"
          /\ thread' = [thread EXCEPT ![a].pc = "iter"]
    /\ session_file' = [exists |-> TRUE, cells |-> <<>>]
    /\ UNCHANGED <<sessions, call, returned, inserted>>
    /\ UNCHANGED <<validVars, fetchVars, syncVars, trafficVars>>

\* line 160: json.dump starts to iterate over the dict; the iterator keeps
\* the size the dict has now
StartDump ==
    /\ \E a \in ThreadIds :
          /\ thread[a].pc = "iter"
          /\ thread' = [thread EXCEPT ![a].pc = "next",
                                      ![a].size = Len(inserted),
                                      ![a].pos = 0,
                                      ![a].buf = <<>>]
    /\ UNCHANGED <<sessions, session_file, call, returned, inserted>>
    /\ UNCHANGED <<validVars, fetchVars, syncVars, trafficVars>>

\* line 160: the iterator is asked for the next entry.  A dict whose size
\* changed since the iteration began raises RuntimeError: the with block
\* closes the file, which writes the entries encoded so far, and the call
\* ends with the exception.  After the last entry the closing brace is
\* written to the buffer.
NextEntry ==
    /\ \E a \in ThreadIds :
          /\ thread[a].pc = "next"
          /\ IF Len(inserted) # thread[a].size
             THEN /\ session_file' = [exists |-> TRUE,
                                      cells |-> Written(thread[a].buf,
                                                        session_file.cells)]
                  /\ thread' = [thread EXCEPT ![a].pc = "raised",
                                              ![a].buf = <<>>]
             ELSE IF thread[a].pos < thread[a].size
                  THEN /\ thread' = [thread EXCEPT ![a].pc = "encode",
                                                   ![a].pos = @ + 1,
                                                   ![a].cur = <<>>]
                       /\ UNCHANGED session_file
                  ELSE /\ thread' = [thread EXCEPT ![a].pc = "close",
                                                   ![a].buf = Append(@, Close)]
                       /\ UNCHANGED session_file
    /\ UNCHANGED <<sessions, call, returned, inserted>>
    /\ UNCHANGED <<validVars, fetchVars, syncVars, trafficVars>>

\* the keys of an entry in the order of lines 169-171
Fields == <<"session_count", "last_playtime", "last_played">>

\* line 160: the encoder reads the next value of the entry it stands at;
\* with the third the entry's text goes to the buffer, after a comma when it
\* is not the first
EncodeValue ==
    /\ \E a \in ThreadIds :
          LET t == thread[a]
              key == inserted[t.pos]
              cur == Append(t.cur, sessions[key][Fields[Len(t.cur) + 1]])
          IN  /\ t.pc = "encode"
              /\ thread' =
                    IF Len(cur) < Len(Fields)
                    THEN [thread EXCEPT ![a].cur = cur]
                    ELSE [thread EXCEPT
                              ![a].pc = "next",
                              ![a].cur = <<>>,
                              ![a].buf =
                                  (IF t.pos > 1 THEN Append(@, Comma) ELSE @)
                                  \o <<Body(key, [session_count |-> cur[1],
                                                  last_playtime |-> cur[2],
                                                  last_played   |-> cur[3]])>>]
    /\ UNCHANGED <<sessions, session_file, call, returned, inserted>>
    /\ UNCHANGED <<validVars, fetchVars, syncVars, trafficVars>>

\* the end of the with block writes the buffer and closes the file, and
\* line 187 returns
CloseFile ==
    /\ \E a \in ThreadIds :
          /\ thread[a].pc = "close"
          /\ session_file' = [exists |-> TRUE,
                              cells |-> Written(thread[a].buf, session_file.cells)]
          /\ thread' = [thread EXCEPT ![a].pc = "returned", ![a].buf = <<>>,
                                      ![a].size = 0, ![a].pos = 0]
    /\ UNCHANGED <<sessions, call, returned, inserted>>
    /\ UNCHANGED <<validVars, fetchVars, syncVars, trafficVars>>

\* the entries an earlier process stored, in the order of their insertion
StoredKeys == <<Str(0), Str(MaxAppId)>>

StoredBefore ==
    [k \in {Str(a) : a \in ThreadIds} |->
        [session_count |-> 1, last_playtime |-> 100, last_played |-> 1000]]

(***************************************************************************)
(* Specifications.                                                         *)
(***************************************************************************)
SessionIdle ==
    /\ session_file = NoFile
    /\ sessions = load_sessions(NoFile)
    /\ call = NoCall
    /\ returned = [a \in AppIds |-> NoCall]

ValidIdle == game_details = EmptyDict /\ valid = NotValidated

FetchIdle == source = <<>> /\ attempts = 0 /\ pauses = 0 /\ fetched = NoFetch

\* GamingTracker.__init__ (lines 537-541): no sync has run, the database is empty
SyncIdle ==
    /\ pc = "idle"
    /\ update_existing = TRUE
    /\ games = <<>>
    /\ i = 1
    /\ existing_games = EmptyDict
    /\ scan = <<>>
    /\ notion = <<>>
    /\ counters = ZeroCounters
    /\ requests = <<>>
    /\ trackable = {}
    /\ result = NoResult
    /\ prev = NoRun

ThreadIdle == thread = [a \in ThreadIds |-> NotCalling] /\ inserted = <<>>

TrafficIdle ==
    /\ loop_at = LoopIdle
    /\ loop_games = <<>>
    /\ include_achievements = TRUE
    /\ in_flight = {}
    /\ answered = <<>>
    /\ gathered = EmptyDict

\* the session tracker of gaming_tracker.py, started with no file
SessionInit == SessionIdle /\ ValidIdle /\ FetchIdle /\ SyncIdle /\ TrafficIdle /\ ThreadIdle

SessionNext == UpdateSessionCount \/ Restart

SpecSession == SessionInit /\ [][SessionNext]_vars

\* the session tracker observing one app, with restarts in between
RunInit == SessionInit

RunNext == UpdateSessionCountRun \/ Restart

SpecRun == RunInit /\ [][RunNext]_vars

\* one SessionTracker, constructed over no file or over the file of an earlier
\* process, and a thread for each app id
ThreadsInit ==
    /\ \E fresh \in BOOLEAN :
          IF fresh
          THEN /\ session_file = NoFile
               /\ sessions = load_sessions(NoFile)
               /\ inserted = <<>>
          ELSE /\ session_file = [exists |-> TRUE,
                                  cells |-> JsonDumpCells(StoredBefore, StoredKeys)]
               /\ sessions = JsonLoadCells(EmptyDict, session_file.cells)
               /\ inserted = StoredKeys
    /\ thread = [a \in ThreadIds |-> NotCalling]
    /\ call = NoCall
    /\ returned = [a \in AppIds |-> NoCall]
    /\ ValidIdle /\ FetchIdle /\ SyncIdle /\ TrafficIdle

ThreadsNext ==
    \/ EnterCall
    \/ StorePlaytime
    \/ StoreLastPlayed
    \/ OpenFile
    \/ StartDump
    \/ NextEntry
    \/ EncodeValue
    \/ CloseFile

SpecThreads == ThreadsInit /\ [][ThreadsNext]_vars

\* syncs of a one-game library, each in the running process or in a new one
RecoverInit == SessionInit

RecoverNext == SyncOneGame \/ Restart

SpecRecover == RecoverInit /\ [][RecoverNext]_vars

\* the session tracker of index.py: construction loads the file (lines 140-151)
IndexInit ==
    /\ session_file \in IndexFiles
    /\ sessions = load_sessions(session_file)
    /\ call = NoCall
    /\ returned = [a \in AppIds |-> NoCall]
    /\ ValidIdle /\ FetchIdle /\ SyncIdle /\ TrafficIdle /\ ThreadIdle

IndexNext == UpdateSessionCountIndex \/ Restart

SpecIndex == IndexInit /\ [][IndexNext]_vars

\* is_valid_game on every details record of DetailInputs
ValidInit ==
    /\ game_details \in DetailInputs
    /\ valid = NotValidated
    /\ SessionIdle /\ FetchIdle /\ SyncIdle /\ TrafficIdle /\ ThreadIdle

ValidNext == Validate

SpecValid == ValidInit /\ [][ValidNext]_vars

\* one fetch call against every script
FetchInit ==
    /\ source \in Scripts
    /\ attempts = 0 /\ pauses = 0 /\ fetched = NoFetch
    /\ SessionIdle /\ ValidIdle /\ SyncIdle /\ TrafficIdle /\ ThreadIdle

FetchNext == GetGameDetails \/ GetGameAchievements

SpecFetch == FetchInit /\ [][FetchNext]_vars

\* syncs of the tracker, one after the other, from an empty database
SyncInit == SessionIdle /\ ValidIdle /\ FetchIdle /\ SyncIdle /\ TrafficIdle /\ ThreadIdle

SyncNext == StartSync \/ ListExisting \/ ProcessGame \/ FinishSync

SpecSync == SyncInit /\ [][SyncNext]_vars

\* the menu of main: "Update session counts" chosen time and again, the
\* process restarted in between, from the file an earlier run left
MenuInit ==
    /\ session_file \in SyncFiles
    /\ sessions = load_sessions(session_file)
    /\ call = NoCall
    /\ returned = [a \in AppIds |-> NoCall]
    /\ ValidIdle /\ FetchIdle /\ SyncIdle /\ TrafficIdle /\ ThreadIdle

MenuNext == UpdateSessionCounts \/ Restart

SpecMenu == MenuInit /\ [][MenuNext]_vars

\* one record of the database, created, updated and edited
PageInit == SessionIdle /\ ValidIdle /\ FetchIdle /\ SyncIdle /\ TrafficIdle /\ ThreadIdle

PageNext == CreateEntry \/ UpdateEntry \/ OwnerEdits

SpecPage == PageInit /\ [][PageNext]_vars

\* the session tracker started with no file, with crashes inside
\* update_session_count and restarts
CrashInit == SessionIdle /\ ValidIdle /\ FetchIdle /\ SyncIdle /\ TrafficIdle /\ ThreadIdle

CrashNext == CrashInObserve \/ Restart

SpecCrash == CrashInit /\ [][CrashNext]_vars

\* the requests of one run of the loop
TrafficInit == SessionIdle /\ ValidIdle /\ FetchIdle /\ SyncIdle /\ TrafficIdle /\ ThreadIdle

TrafficNext ==
    BeginLoop \/ SendRequest \/ AnswerDetails \/ AnswerAchievements \/ AnswerWrite

SpecTraffic == TrafficInit /\ [][TrafficNext]_vars

(***************************************************************************)
(* The session tracker's claims, under SpecSession.                        *)
(***************************************************************************)
Called == call.outcome # "none"

Returned == call.outcome = "return"

\* the key of the last call and the entry stored under it before the call
CallKey == Str(call.app_id)

HadEntry == CallKey \in DOMAIN call.pre

\* C1: on every call for an id that has returned a session count before, the
\* count returned is at least the one the previous call on that id returned
\* and at most one more; this holds for all inputs, so for the non-decreasing
\* ones too.
C1_CountGrowsByAtMostOne ==
    (Returned /\ call.prev.outcome = "return")
        => /\ call.prev.value <= call.value
           /\ call.value <= call.prev.value + 1

\* a second call on an id, with usage and timestamp not below the stored
\* ones, returns one more than the call before it
C1_Witness ==
    /\ Returned /\ call.prev.outcome = "return" /\ HadEntry
    /\ call.current_playtime >= call.pre[CallKey].last_playtime
    /\ call.last_played >= call.pre[CallKey].last_played
    /\ call.value = call.prev.value + 1

C3_FirstObservation ==
    (Returned /\ ~HadEntry)
        => /\ CallKey \in DOMAIN sessions
           /\ sessions[CallKey].session_count
                  = (IF call.current_playtime > 0 THEN 1 ELSE 0)
           /\ sessions[CallKey].last_playtime = call.current_playtime
           /\ sessions[CallKey].last_played = call.last_played
           /\ call.value = sessions[CallKey].session_count

\* a first call with no playtime has returned 0
C3_Witness ==
    /\ Returned /\ ~HadEntry
    /\ call.current_playtime = 0
    /\ call.value = 0

\* C4: with an entry stored and the playtime not above the stored one, the
\* entry is left as it was, whatever last_played is passed, and the call
\* returns the stored session_count.
C4_NoIncreaseNoChange ==
    (Called /\ HadEntry /\ call.current_playtime <= call.pre[CallKey].last_playtime)
        => /\ Returned
           /\ CallKey \in DOMAIN sessions
           /\ sessions[CallKey] = call.pre[CallKey]
           /\ call.value = call.pre[CallKey].session_count

\* a call with a lower playtime and a later timestamp has returned
C4_Witness ==
    /\ Returned /\ HadEntry
    /\ call.current_playtime < call.pre[CallKey].last_playtime
    /\ call.last_played - call.pre[CallKey].last_played > 3600
    /\ call.value = call.pre[CallKey].session_count

\* C10: write-through persistence: whenever a call returns, the file holds
\* exactly the in-memory dict, and that dict includes what the call did: the
\* entry of the observed id exists, and carries the playtime and timestamp
\* passed when the entry is new or the playtime went up.  It holds of
\* gaming_tracker.py (SpecSession) and fails of index.py (SpecIndex).
C10_WriteThrough ==
    Returned =>
        /\ session_file.exists
        /\ load_sessions(session_file) = sessions
        /\ CallKey \in DOMAIN sessions
        /\ (~HadEntry \/ call.current_playtime > call.pre[CallKey].last_playtime)
              => /\ sessions[CallKey].last_playtime = call.current_playtime
                 /\ sessions[CallKey].last_played = call.last_played

(***************************************************************************)
(* The validator's claim, under SpecValid.                                 *)
(***************************************************************************)
\* the type of the record under validation, '' when it has none
DetailType == IF "type" \in DOMAIN game_details THEN game_details.type ELSE <<>>

\* its genres list, [] when it has none
DetailGenres == IF "genres" \in DOMAIN game_details THEN game_details.genres ELSE <<>>

\* its category tags
DetailTags ==
    {IF "description" \in DOMAIN DetailGenres[n] THEN DetailGenres[n].description
     ELSE None : n \in 1..Len(DetailGenres)}

\* the type spells "game" in some mix of cases
SpellsGame(t) ==
    /\ Len(t) = 4
    /\ t[1] \in {"g", "G"} /\ t[2] \in {"a", "A"}
    /\ t[3] \in {"m", "M"} /\ t[4] \in {"e", "E"}

NonApplicable ==
    {"Utilities", "Software", "Video Production", "Animation & Modeling",
     "Design & Illustration"}

\* C9: is_valid_game returns true exactly when the type is "game" ignoring
\* case, the genres list is non-empty and some tag lies outside the
\* non-applicable set; false for the empty record, for no tags, for another
\* type, for tags within {Utilities, Software}; true for "game" with
\* {Action, Utilities}.
C9_IsTrackable ==
    valid.done =>
        /\ valid.value = (/\ SpellsGame(DetailType)
                          /\ DetailGenres # <<>>
                          /\ \E tag \in DetailTags : tag \notin NonApplicable)
        /\ game_details = EmptyDict => valid.value = FALSE
        /\ DetailTags = {} => valid.value = FALSE
        /\ ~SpellsGame(DetailType) => valid.value = FALSE
        /\ DetailTags \subseteq {"Utilities", "Software"} => valid.value = FALSE
        /\ (SpellsGame(DetailType) /\ DetailTags = {"Action", "Utilities"})
              => valid.value = TRUE

\* "Game" with the tags Utilities and Action has been accepted
C9_Witness ==
    /\ valid.done
    /\ DetailType = <<"G", "a", "m", "e">>
    /\ DetailTags = {"Action", "Utilities"}
    /\ valid.value = TRUE

(***************************************************************************)
(* The fetch claim, under SpecFetch.                                       *)
(***************************************************************************)
\* C8: against a source that answers 429, 429, 200 a fetch returns the
\* payload of the 200 after exactly 2 backoff pauses; against a source that
\* always answers 403 it returns the empty result after exactly 1 attempt.
C8_RetryPolicy ==
    fetched.kind # "none" =>
        /\ source = <<Http(429), Http(429), Http(200)>>
              => /\ fetched.result # EmptyDict
                 /\ pauses = 2
        /\ (\A n \in DOMAIN source : source[n] = Http(403))
              => /\ fetched.result = EmptyDict
                 /\ attempts = 1

(***************************************************************************)
(* The sync's claims, under SpecSync.                                      *)
(***************************************************************************)
\* a sync over a non-empty library has returned
SyncDone == pc = "done" /\ games # <<>>

\* the positions in requests of the calls of one kind for one app id
CallsFor(op, app_id) ==
    {n \in 1..Len(requests) : requests[n].op = op /\ requests[n].appid = app_id}

CallsOf(op) == {n \in 1..Len(requests) : requests[n].op = op}

\* the trackable items the dict of existing entries lists
Listed == {app_id \in trackable : app_id \in DOMAIN existing_games}

\* C5: of the N trackable items of a sync, the M whose id is in the dict of
\* existing entries get exactly one update call each, addressed to the page
\* the dict maps the id to, and no create call; the other N-M get exactly
\* one create call each and no update call; nothing else is written.
C5_Partition ==
    SyncDone =>
        /\ \A app_id \in Listed :
              /\ Cardinality(CallsFor("update", app_id)) = 1
              /\ CallsFor("create", app_id) = {}
              /\ \A n \in CallsFor("update", app_id) :
                    requests[n].page_id = existing_games[app_id]
        /\ \A app_id \in trackable \ Listed :
              /\ Cardinality(CallsFor("create", app_id)) = 1
              /\ CallsFor("update", app_id) = {}
        /\ \A n \in 1..Len(requests) : requests[n].appid \in trackable
        /\ Cardinality(CallsOf("update")) = Cardinality(Listed)
        /\ Cardinality(CallsOf("create")) = Cardinality(trackable) - Cardinality(Listed)

\* a sync over two trackable items, one of them listed, has returned
C5_Witness ==
    /\ SyncDone
    /\ Cardinality(trackable) = 2
    /\ Cardinality(Listed) = 1
    /\ Cardinality(CallsOf("update")) = 1
    /\ Cardinality(CallsOf("create")) = 1

\* C6: after a sync over N trackable items synced + updated + errors = N,
\* every item being counted once: as synced when its create succeeded, as
\* updated when its update succeeded, as an error when its call failed; and
\* synced + updated < N only when errors > 0.
C6_CountersAddUp ==
    SyncDone =>
        /\ counters.synced + counters.updated + counters.errors = Cardinality(trackable)
        /\ counters.synced
              = Cardinality({n \in CallsOf("create") : requests[n].ok})
        /\ counters.updated
              = Cardinality({n \in CallsOf("update") : requests[n].ok})
        /\ counters.errors
              = Cardinality({n \in 1..Len(requests) : ~requests[n].ok})
        /\ result.synced = counters.synced
        /\ result.updated = counters.updated
        /\ result.errors = counters.errors
        /\ (counters.synced + counters.updated < Cardinality(trackable))
              => counters.errors > 0

\* a sync over two trackable items has returned with one entry updated and
\* one call failed
C6_Witness ==
    /\ SyncDone
    /\ Cardinality(trackable) = 2
    /\ counters.updated = 1 /\ counters.errors = 1

\* the scan of the running sync read every page of the database
ScanComplete == \A n \in 1..Len(scan) : scan[n].outcome = "ok"

\* C7: idempotence: a sync that follows a clean sync (entries updated, no
\* game skipped, no error) over the same games, itself skipping none and
\* scanning the whole database, issues no create call: every item is an
\* update.
C7_Idempotent ==
    (/\ SyncDone
     /\ prev.kind = "run" /\ prev.clean /\ prev.games = games
     /\ update_existing /\ ScanComplete
     /\ trackable = {games[n].appid : n \in 1..Len(games)})
        => /\ CallsOf("create") = {}
           /\ Cardinality(CallsOf("update")) = Len(games)

(***************************************************************************)
(* The claims on the loop's requests, under SpecTraffic.                   *)
(***************************************************************************)
\* C11: within one run of the fetch loop at most K requests are in flight
\* at any moment; the loop sends each request with a blocking call, so the
\* bound it keeps is 1, which is within every configured K >= 1.
C11_InFlightBound == Cardinality(in_flight) <= 1

\* a request of the second game is in flight after the first game's three
\* requests were answered
C11_Witness ==
    /\ Cardinality(in_flight) = 1
    /\ \E r \in in_flight : r.n = 2
    /\ Len(answered) >= 3

\* the answers to the requests of one kind
AnswersOf(line) == {k \in 1..Len(answered) : answered[k].line = line}

\* an answer that carries the data: status 200
Success(resp) == resp.kind = "http" /\ resp.status = 200

BatchOf(n) == (n - 1) \div BatchSize + 1

\* C19: batches are processed strictly in sequence: while a request of a
\* game of batch N+1 is in flight, or has been answered, no request of a
\* game of batch N is in flight, and every game of batch N has had its
\* details request answered.
C19_BatchesInSequence ==
    \A r \in in_flight :
        /\ \A q \in in_flight : BatchOf(q.n) = BatchOf(r.n)
        /\ \A n \in 1..Len(loop_games) :
              BatchOf(n) < BatchOf(r.n) =>
                  /\ \E k \in AnswersOf("details") : answered[k].n = n
                  /\ \A k \in 1..Len(answered) :
                        answered[k].n = n => answered[k].seq < r.seq

\* a request of a game of the second batch is in flight
C19_Witness ==
    /\ \E r \in in_flight : BatchOf(r.n) = 2
    /\ \E k \in AnswersOf("write") : BatchOf(answered[k].n) = 1

(***************************************************************************)
(* Further claims on the sync, under SpecSync.                             *)
(***************************************************************************)
\* C13: a sync whose library fetch yields no games returns synced, updated,
\* errors and skipped all 0, sends no database query and no create or
\* update call, and changes no session entry (nor the session file, nor a
\* page).
C13_EmptyLibrary ==
    /\ []((pc = "done" /\ games = <<>>) =>
            /\ result = [kind |-> "returned", synced |-> 0, updated |-> 0,
                         errors |-> 0, skipped |-> 0]
            /\ scan = <<>>
            /\ requests = <<>>)
    /\ [][(games' = <<>> /\ pc' = "done") =>
            /\ sessions' = sessions
            /\ session_file' = session_file
            /\ notion' = notion]_vars

\* a sync over an empty library has returned, after one that left entries
C13_Witness ==
    /\ pc = "done" /\ games = <<>>
    /\ DOMAIN sessions # {}
    /\ notion # <<>>
\* the position in games of the game with an app id
PositionOf(app_id) == CHOOSE n \in 1..Len(games) : games[n].appid = app_id

\* the create and update calls that failed
FailedCalls == {k \in 1..Len(requests) : ~requests[k].ok}

\* C15: a create or update call that does not end in a successful status
\* adds exactly 1 to errors for its game and does not stop the loop: every
\* later game that is valid still gets its own create or update call.
C15_WriteFailureCounted ==
    (pc \in {"loop", "done"} /\ games # <<>>) =>
        /\ counters.errors = Cardinality(FailedCalls)
        /\ pc = "done" =>
              /\ i = Len(games) + 1
              /\ \A k \in FailedCalls : \A app_id \in trackable :
                    PositionOf(app_id) > PositionOf(requests[k].appid) =>
                        \E j \in 1..Len(requests) :
                            j > k /\ requests[j].appid = app_id

\* a sync has returned whose first call failed and whose second succeeded
C15_Witness ==
    /\ SyncDone
    /\ Len(requests) >= 2
    /\ ~requests[1].ok
    /\ requests[2].ok
    /\ counters.errors = 1

(***************************************************************************)
(* C16, under SpecMenu (the formula holds of the syncs of SpecSync).       *)
(***************************************************************************)
\* the app is one whose details record passes is_valid_game
TrackableApp(app_id) == is_valid_game(StoreDetails(app_id))

\* C16: update_session_count is called, and a create or update is issued,
\* only for games whose details pass is_valid_game: a game that fails the
\* test has no session entry made or changed and no page written.
C16_OnlyTrackable ==
    /\ Called => TrackableApp(call.app_id)
    /\ \A key \in DOMAIN sessions :
          \E app_id \in SyncIds : Str(app_id) = key /\ TrackableApp(app_id)
    /\ \A n \in 1..Len(requests) : TrackableApp(requests[n].appid)
    /\ \A n \in 1..Len(notion) : TrackableApp(AppIdProp(notion[n]).number)

(***************************************************************************)
(* The claims on get_existing_games, under SpecSync.                       *)
(***************************************************************************)
\* get_existing_games has returned and the loop has not started
Scanned == pc = "loop" /\ i = 1 /\ update_existing

\* the pages of the database that carry an app id number
Numbered(pages) == {n \in pages : "number" \in DOMAIN AppIdProp(notion[n])}

\* C17: when no page request fails, the scan ends after requesting each
\* page once, every request after the first carrying the cursor the page
\* before returned, and the dict then holds, before any create or update
\* call, the app id of every record of every page, mapped to the page id
\* of a record with that app id (of the records that share an app id a
\* dict keeps one).
C17_FullScan ==
    (Scanned /\ ScanComplete) =>
        /\ scan # <<>>
        /\ scan[1].start_cursor = 1
        /\ \A k \in 2..Len(scan) :
              /\ scan[k - 1].has_more
              /\ scan[k].start_cursor = scan[k - 1].next_cursor
              /\ scan[k].start_cursor > scan[k - 1].start_cursor
        /\ ~scan[Len(scan)].has_more
        /\ requests = <<>>
        /\ \A n \in Numbered(1..Len(notion)) :
              LET app_id == AppIdProp(notion[n]).number IN
              /\ app_id \in DOMAIN existing_games
              /\ \E m \in Numbered(1..Len(notion)) :
                    /\ AppIdProp(notion[m]).number = app_id
                    /\ existing_games[app_id] = notion[m].id

\* the pages read before the request that failed
ReadBeforeFailure == 1..(scan[Len(scan)].start_cursor - 1)

\* C18: when a page request fails with a transport error the scan stops at
\* once, nothing is raised, the dict holds exactly the records of the pages
\* read before the failure, and the sync goes on to its loop with it.
C18_PartialScan ==
    (Scanned /\ ~ScanComplete) =>
        /\ scan[Len(scan)].outcome = "error"
        /\ \A k \in 1..(Len(scan) - 1) : scan[k].outcome = "ok"
        /\ requests = <<>>
        /\ \A n \in Numbered(ReadBeforeFailure) :
              LET app_id == AppIdProp(notion[n]).number IN
              /\ app_id \in DOMAIN existing_games
              /\ \E m \in Numbered(ReadBeforeFailure) :
                    /\ AppIdProp(notion[m]).number = app_id
                    /\ existing_games[app_id] = notion[m].id
        /\ \A app_id \in DOMAIN existing_games :
              \E n \in Numbered(ReadBeforeFailure) :
                  AppIdProp(notion[n]).number = app_id

(***************************************************************************)
(* C14, under SpecPage.                                                    *)
(***************************************************************************)
\* the last call was an update that succeeded
Updated(reqs) == reqs # <<>> /\ reqs[1].op = "update" /\ reqs[1].ok

\* what the claim says an update writes
ClaimedUpdateKeys == {"Hours Played", "Session Count", "Achievement Completion"}

\* what update_game_entry writes
UpdateKeys ==
    {"Hours Played", "Session Count", "Achievement Completion",
     "Last Played", "Most Recent Session", "Cost Per Hour"}

\* an update leaves the properties outside keys as they were
Frame(keys) ==
    (Updated(requests') /\ notion # <<>>) =>
        /\ requests'[1].written \subseteq keys
        /\ DOMAIN notion'[1].properties = DOMAIN notion[1].properties
        /\ \A p \in DOMAIN notion[1].properties \ keys :
              notion'[1].properties[p] = notion[1].properties[p]

\* C14 as stated: an update call writes only hours played, session count
\* and achievement completion; every other property of the record (ratings,
\* descriptive fields, dates, price-derived fields) is left unchanged.
C14_UpdateWritesThree == [][Frame(ClaimedUpdateKeys)]_vars

\* C14 as amended: an update call writes only hours played, session count,
\* achievement completion, last played, most recent session and cost per
\* hour; every other property of the record (ratings, title, app id,
\* genres, price, release and purchase date, developer, publisher, notes,
\* status, platform, description) is left unchanged by any number of
\* updates.
C14_UpdateWritesSix == [][Frame(UpdateKeys)]_vars

\* an update has succeeded on a record the owner had rated and marked
\* completed, and the rating and the status are still there
C14_Witness ==
    /\ Updated(requests)
    /\ notion # <<>>
    /\ notion[1].properties["Gameplay Rating"].number = 8
    /\ notion[1].properties["Status"].select = "Completed"
    /\ notion[1].properties["Session Count"].number = 2

(***************************************************************************)
(* C20, under SpecCrash.                                                   *)
(***************************************************************************)
\* C20: a crash at any point of an update_session_count call, the write of
\* the file included, leaves a file the next start can load, whose dict is
\* the one the file held before the call except possibly for the entry of
\* the app the call was for.
C20_CrashLosesOneEntry ==
    call.outcome = "crash" =>
        /\ Readable(session_file)
        /\ LET before == load_sessions(call.pre_file)
               after == load_sessions(session_file)
               others == ((DOMAIN before) \cup (DOMAIN after)) \ {Str(call.app_id)}
           IN  \A key \in others :
                   /\ key \in DOMAIN before
                   /\ key \in DOMAIN after
                   /\ after[key] = before[key]

(***************************************************************************)
(* The run of observations, under SpecRun.                                 *)
(***************************************************************************)
\* the run the last call belongs to
CallRun == returned[call.app_id].run

\* C21: a call that passes a playtime above the stored one leaves the
\* playtime and the last_played it passed in the entry, whether its
\* last_played is more than 3600 above the stored one or not; hence every
\* call of a run of calls with rising playtime, each at most 3600 after the
\* one before it, returns the session count the first call of the run
\* returned, however far the run's first and last timestamps are apart.
C21_RunNeverIncrements ==
    Returned =>
        /\ (HadEntry /\ call.current_playtime > call.pre[CallKey].last_playtime)
              => /\ sessions[CallKey].last_playtime = call.current_playtime
                 /\ sessions[CallKey].last_played = call.last_played
        /\ CallRun.live => call.value = CallRun.count

\* a call has returned the count of the run's first call, more than 3600
\* after that call and at most 3600 after the call before it
C21_Witness ==
    /\ Returned /\ HadEntry
    /\ CallRun.live
    /\ call.last_played - CallRun.start > 3600
    /\ call.last_played - call.pre[CallKey].last_played <= 3600
    /\ call.current_playtime > call.pre[CallKey].last_playtime
    /\ call.value = CallRun.count

(***************************************************************************)
(* Entries over calls and restarts, under SpecSession.                     *)
(***************************************************************************)
\* C22: over every call of update_session_count, whatever it is passed, and
\* every restart that loads the dict from the file, an entry that is in the
\* dict stays in it and its session_count does not go down.
C22_EntriesKept ==
    [][\A k \in DOMAIN sessions :
            /\ k \in DOMAIN sessions'
            /\ sessions'[k].session_count >= sessions[k].session_count]_vars

\* a new process has loaded two entries, one of them with two sessions counted
C22_Witness ==
    /\ call = NoCall
    /\ session_file.exists
    /\ \A a \in SessionIds : Str(a) \in DOMAIN sessions
    /\ \E a \in SessionIds : sessions[Str(a)].session_count = 2

(***************************************************************************)
(* Calls from several threads, under SpecThreads.                          *)
(***************************************************************************)
AllReturned == \A a \in ThreadIds : thread[a].pc = "returned"

\* the dict holds the entry every call was to leave
InMemory ==
    \A a \in ThreadIds :
        Str(a) \in DOMAIN sessions /\ sessions[Str(a)] = thread[a].expect

\* the file can be loaded and holds the dict
OnDisk ==
    /\ session_file.exists
    /\ WellFormed(session_file.cells)
    /\ JsonLoadCells(EmptyDict, session_file.cells) = sessions

InMemoryAfterReturn == AllReturned => InMemory

(***************************************************************************)
(* A failed update and the sync after it, under SpecRecover.               *)
(***************************************************************************)
\* the last sync sent an update that succeeded, the sync before it sent an
\* update for the same game that failed, and the library gave both the
\* same game data
Recovered ==
    /\ prev.kind = "run"
    /\ requests # <<>>
    /\ prev.request.op = "update" /\ ~prev.request.ok
    /\ requests[1].op = "update" /\ requests[1].ok
    /\ requests[1].game_data = prev.request.game_data

\* C24: when the update call for a game fails in one sync and the next sync
\* gets the same game data from the library and its update call succeeds,
\* the session count and the hours played that call writes, and the page
\* then holds, are the ones the failed call carried.
C24_MissedUpdateRecovered ==
    Recovered =>
        \A p \in {"Session Count", "Hours Played"} :
            /\ requests[1].properties[p] = prev.request.properties[p]
            /\ \E n \in 1..Len(notion) :
                  /\ notion[n].id = requests[1].page_id
                  /\ notion[n].properties[p] = prev.request.properties[p]

\* the failed update carried a second session, counted by the sync that
\* sent it, and the page still held the first
C24_Witness ==
    /\ Recovered
    /\ prev.request.properties["Session Count"].number = 2
    /\ requests[1].properties["Session Count"].number = 2
    /\ requests[1].properties["Hours Played"].number = 33

(***************************************************************************)
(* The dict of existing entries and the create calls, under SpecSync.      *)
(***************************************************************************)
\* the pages the database held when the running sync listed it: all but the
\* ones the sync has created since
PagesAtScan ==
    1..(Len(notion) - Cardinality({k \in CallsOf("create") : requests[k].ok}))

\* C25: after a scan in which no page request failed, the dict has a key
\* for the app id of every page that carries one, whatever the id, 0
\* included, and so the sync sends no create call for a game that has a
\* page in the database.
C25_ListedNeverCreated ==
    (pc \in {"loop", "done"} /\ update_existing /\ scan # <<>> /\ ScanComplete) =>
        /\ \A n \in Numbered(PagesAtScan) :
              AppIdProp(notion[n]).number \in DOMAIN existing_games
        /\ \A k \in CallsOf("create") :
              \A n \in Numbered(PagesAtScan) :
                  AppIdProp(notion[n]).number # requests[k].appid

====
